---- MODULE Spec2Model ----
(***************************************************************************)
(* Model of src/UI.py, class EnergyPlusAutomationUI: the generation job    *)
(* execute_modification, the comment-anchored text patcher                 *)
(* _save_with_text_replacement, the object index (get_idf_object_summary,  *)
(* get_all_fields, get_object_sample) and the generation loop of step 5.   *)
(*                                                                         *)
(* Text is a sequence of one-character strings, so that strip, split,      *)
(* replace, upper, `in` and the regular expression are computed character  *)
(* by character as Python computes them.  A file is a sequence of bytes:   *)
(* an ASCII byte is written as its character, any other byte as "0xHH".    *)
(* A decoded non-ASCII character is written "U+HHHH".                      *)
(***************************************************************************)
EXTENDS Integers, Sequences, FiniteSets, TLC

VARIABLES
  pc,              \* position: "execute", "read", "index", "loop", "written", "done", "failed",
                   \* "generated" after a batch, "ui" while the object index is queried
  src_exists,      \* whether the file at self.idf_path can still be opened
  src_bytes,       \* the bytes of the file at self.idf_path
  out_file,        \* the bytes of the file at output_path, or NoFile
  base_idf,        \* self.base_idf.idfobjects: the objects parsed at construction
  modifications,   \* the argument of execute_modification
  target_updates,  \* the list of update requests
  result,          \* what execute_modification returned, or None
  encoding,        \* the encoding the source was read with, or None
  out_encoding,    \* the encoding the output was written with, or None
  lines,           \* f.readlines() of the source
  updates_map,     \* the three-level lookup table
  new_lines,       \* the rewritten lines so far
  current_type, current_name, in_obj,   \* the state of the line parser
  trace,           \* per processed line: what the loop body did with it
  linesep,         \* os.linesep of the platform the program runs on
  coefficients,    \* the coefficients the generation loop has still to run
  results,         \* the finished runs, each with what it read and wrote
  answer           \* what the last query of the object index returned

vars == <<pc, src_exists, src_bytes, out_file, base_idf, modifications,
          target_updates, result, encoding, out_encoding, lines, updates_map,
          new_lines, current_type, current_name, in_obj, trace,
          linesep, coefficients, results, answer>>

\* what one run of execute_modification or of the patcher leaves alone
sessionVars == <<linesep, coefficients, results, answer>>

(***************************************************************************)
(* Bounds of the model.                                                    *)
(***************************************************************************)
MaxFragments == 2

(***************************************************************************)
(* Python values that are not text.                                        *)
(***************************************************************************)
None == <<"None">>
NoFile == <<"NoFile">>

(***************************************************************************)
(* str methods.                                                            *)
(***************************************************************************)
Whitespace == {" ", "\t", "\n", "\r"}

Digits == {"0", "1", "2", "3", "4", "5", "6", "7", "8", "9"}

LowerLetters == <<"a","b","c","d","e","f","g","h","i","j","k","l","m",
                  "n","o","p","q","r","s","t","u","v","w","x","y","z","U+00E9">>

UpperLetters == <<"A","B","C","D","E","F","G","H","I","J","K","L","M",
                  "N","O","P","Q","R","S","T","U","V","W","X","Y","Z","U+00C9">>

UpperTable ==
  [c \in {LowerLetters[k] : k \in 1..Len(LowerLetters)} |->
     UpperLetters[CHOOSE k \in 1..Len(LowerLetters) : LowerLetters[k] = c]]

UpperChar(c) == IF c \in DOMAIN UpperTable THEN UpperTable[c] ELSE c

Upper(s) == [k \in 1..Len(s) |-> UpperChar(s[k])]

LowerTable ==
  [c \in {UpperLetters[k] : k \in 1..Len(UpperLetters)} |->
     LowerLetters[CHOOSE k \in 1..Len(UpperLetters) : UpperLetters[k] = c]]

LowerChar(c) == IF c \in DOMAIN LowerTable THEN LowerTable[c] ELSE c

Lower(s) == [k \in 1..Len(s) |-> LowerChar(s[k])]

MinOf(S) == CHOOSE m \in S : \A n \in S : m <= n

MaxOf(S) == CHOOSE m \in S : \A n \in S : n <= m

Strip(s) ==
  LET keep == {k \in 1..Len(s) : s[k] \notin Whitespace}
  IN  IF keep = {} THEN <<>> ELSE SubSeq(s, MinOf(keep), MaxOf(keep))

RStripNewline(s) ==
  LET keep == {k \in 1..Len(s) : s[k] \notin {"\r", "\n"}}
  IN  IF keep = {} THEN <<>> ELSE SubSeq(s, 1, MaxOf(keep))

\* s.find(c): the first position of character c, 0 when absent (1-based)
Find(s, c) ==
  LET at == {k \in 1..Len(s) : s[k] = c}
  IN  IF at = {} THEN 0 ELSE MinOf(at)

HasChar(s, c) == \E k \in 1..Len(s) : s[k] = c

\* sub in s
Contains(s, sub) ==
  \E k \in 0..(Len(s) - Len(sub)) : SubSeq(s, k + 1, k + Len(sub)) = sub

StartsWith(s, pre) == Len(pre) <= Len(s) /\ SubSeq(s, 1, Len(pre)) = pre

\* s.replace(c, '')
Remove(s, c) == SelectSeq(s, LAMBDA x : x # c)

\* s.split(c)[0] and s.split(c)[1]
SplitHead(s, c) == IF Find(s, c) = 0 THEN s ELSE SubSeq(s, 1, Find(s, c) - 1)

SplitSecond(s, c) ==
  LET rest == SubSeq(s, Find(s, c) + 1, Len(s))
  IN  SplitHead(rest, c)

\* s.split(c, 1)
SplitOnce(s, c) ==
  IF Find(s, c) = 0 THEN <<s>>
  ELSE <<SubSeq(s, 1, Find(s, c) - 1), SubSeq(s, Find(s, c) + 1, Len(s))>>

(***************************************************************************)
(* dict, in insertion order: a sequence of [k, v].                         *)
(***************************************************************************)
DictHas(d, key) == \E j \in 1..Len(d) : d[j].k = key

DictGet(d, key, default) ==
  IF DictHas(d, key) THEN d[CHOOSE j \in 1..Len(d) : d[j].k = key].v ELSE default

DictSet(d, key, val) ==
  IF DictHas(d, key)
  THEN [j \in 1..Len(d) |-> IF d[j].k = key THEN [k |-> key, v |-> val] ELSE d[j]]
  ELSE Append(d, [k |-> key, v |-> val])

(***************************************************************************)
(* float.  A float is an integer number of millionths (round(x, 6) keeps   *)
(* six decimals).                                                          *)
(***************************************************************************)
Micro == 1000000

DigitChar(d) == <<"0","1","2","3","4","5","6","7","8","9">>[d + 1]

RECURSIVE DecimalDigits(_)
DecimalDigits(n) ==
  IF n < 10 THEN <<DigitChar(n)>> ELSE Append(DecimalDigits(n \div 10), DigitChar(n % 10))

\* the six decimals of a fraction, without trailing zeros
RECURSIVE FractionDigits(_, _)
FractionDigits(frac, width) ==
  IF frac = 0 THEN <<>>
  ELSE LET unit == 10 ^ (width - 1)
       IN  <<DigitChar(frac \div unit)>> \o FractionDigits(frac % unit, width - 1)

\* str(x) of a float x, as the f-string writes matched_val: repr switches to
\* exponent notation below 1e-4
FormatFloat(x) ==
  LET a == IF x < 0 THEN 0 - x ELSE x
      sign == IF x < 0 THEN <<"-">> ELSE <<>>
      body ==
        IF a = 0 THEN <<"0",".","0">>
        ELSE IF a < 10 THEN <<DigitChar(a)>> \o <<"e","-","0","6">>
        ELSE IF a < 100 THEN
          (IF a % 10 = 0 THEN <<DigitChar(a \div 10)>>
           ELSE <<DigitChar(a \div 10), ".", DigitChar(a % 10)>>) \o <<"e","-","0","5">>
        ELSE DecimalDigits(a \div Micro) \o <<".">> \o
             (IF a % Micro = 0 THEN <<"0">> ELSE FractionDigits(a % Micro, 6))
  IN  sign \o body

(***************************************************************************)
(* Text files: open(path, 'r', encoding=...) and open(path, 'w', ...).     *)
(* Both use the default newline=None: reading turns "\r\n" and "\r" into   *)
(* "\n", writing turns "\n" into os.linesep.                               *)
(***************************************************************************)
NonAsciiBytes == {"0xC2", "0xC3", "0xE9", "0xA9", "0x89", "0x83", "0x82"}

\* <<lead byte, continuation byte, character>> of the two-byte UTF-8 sequences
Utf8Pairs ==
  { <<"0xC3", "0xA9", "U+00E9">>, <<"0xC3", "0x89", "U+00C9">>,
    <<"0xC3", "0x83", "U+00C3">>, <<"0xC3", "0x82", "U+00C2">>,
    <<"0xC2", "0xA9", "U+00A9">>, <<"0xC2", "0x89", "U+0089">>,
    <<"0xC2", "0x83", "U+0083">>, <<"0xC2", "0x82", "U+0082">> }

\* <<byte, character>> of Latin-1: every byte is the character of that number
Latin1Pairs ==
  { <<"0xC2", "U+00C2">>, <<"0xC3", "U+00C3">>, <<"0xE9", "U+00E9">>,
    <<"0xA9", "U+00A9">>, <<"0x89", "U+0089">>, <<"0x83", "U+0083">>,
    <<"0x82", "U+0082">> }

Utf8Leads == {p[1] : p \in Utf8Pairs}

Utf8Continuations == {p[2] : p \in Utf8Pairs}

\* whether the bytes decode as UTF-8: every non-ASCII byte is the lead of a
\* two-byte sequence or the continuation of the lead before it
Utf8Valid(b) ==
  \A k \in 1..Len(b) :
    \/ b[k] \notin NonAsciiBytes
    \/ /\ b[k] \in Utf8Leads
       /\ k < Len(b)
       /\ \E p \in Utf8Pairs : p[1] = b[k] /\ p[2] = b[k + 1]
    \/ /\ b[k] \in Utf8Continuations
       /\ k > 1
       /\ b[k - 1] \in Utf8Leads

\* the pieces of a sequence of sequences, joined
RECURSIVE Concat(_)
Concat(ss) ==
  IF Len(ss) = 0 THEN <<>>
  ELSE IF Len(ss) = 1 THEN ss[1]
  ELSE Concat(SubSeq(ss, 1, Len(ss) \div 2)) \o Concat(SubSeq(ss, Len(ss) \div 2 + 1, Len(ss)))

Utf8Decode(b) ==
  Concat([k \in 1..Len(b) |->
            IF b[k] \notin NonAsciiBytes THEN <<b[k]>>
            ELSE IF b[k] \in Utf8Leads
                 THEN <<(CHOOSE p \in Utf8Pairs : p[1] = b[k] /\ p[2] = b[k + 1])[3]>>
                 ELSE <<>>])

Latin1Decode(b) ==
  [k \in 1..Len(b) |->
     IF b[k] \in NonAsciiBytes
     THEN (CHOOSE p \in Latin1Pairs : p[1] = b[k])[2] ELSE b[k]]

Utf8Encode(s) ==
  Concat([k \in 1..Len(s) |->
            IF \E p \in Utf8Pairs : p[3] = s[k]
            THEN LET p == CHOOSE q \in Utf8Pairs : q[3] = s[k] IN <<p[1], p[2]>>
            ELSE <<s[k]>>])

\* newline=None on reading: "\r\n" and "\r" become "\n"
UniversalNewlines(s) ==
  Concat([k \in 1..Len(s) |->
            IF s[k] = "\r" THEN <<"\n">>
            ELSE IF s[k] = "\n" /\ k > 1 /\ s[k - 1] = "\r" THEN <<>>
            ELSE <<s[k]>>])

\* the pieces of s between the occurrences of c; with keep, c ends its piece
\* and an empty last piece is dropped
Pieces(s, c, keep) ==
  LET at == {k \in 1..Len(s) : s[k] = c}
      nth(j) == CHOOSE p \in at : Cardinality({q \in at : q <= p}) = j
      from(j) == IF j = 1 THEN 1 ELSE nth(j - 1) + 1
      to(j) == IF j > Cardinality(at) THEN Len(s)
               ELSE IF keep THEN nth(j) ELSE nth(j) - 1
      n == IF keep /\ at # {} /\ MaxOf(at) = Len(s)
           THEN Cardinality(at) ELSE Cardinality(at) + 1
  IN  IF s = <<>> /\ keep THEN <<>>
      ELSE [j \in 1..n |-> SubSeq(s, from(j), to(j))]

\* splitting after every "\n", the terminator kept
SplitKeepEnds(s) == Pieces(s, "\n", TRUE)

\* f.readlines() of a file opened for reading as text
ReadLinesOf(text) == SplitKeepEnds(UniversalNewlines(text))

\* newline=None on writing: "\n" becomes os.linesep
TranslateNewlinesOut(s, sep) ==
  Concat([k \in 1..Len(s) |-> IF s[k] = "\n" THEN sep ELSE <<s[k]>>])

\* os.linesep
LineSeps == { <<"\n">>, <<"\r", "\n">> }

\* mutant of ReadSource: a source that cannot be opened reads as an empty file
ReadSourceLenient(exists, bytes) ==
  IF ~exists THEN [ok |-> TRUE, encoding |-> <<"u","t","f","-","8">>, lines |-> <<>>]
  ELSE IF Utf8Valid(bytes)
       THEN [ok |-> TRUE, encoding |-> <<"u","t","f","-","8">>, lines |-> ReadLinesOf(Utf8Decode(bytes))]
       ELSE [ok |-> TRUE, encoding |-> <<"l","a","t","i","n","-","1">>, lines |-> ReadLinesOf(Latin1Decode(bytes))]

\* lines 208-211: try utf-8, on any exception latin-1; a second failure propagates
ReadSource(exists, bytes) ==
  IF ~exists THEN [ok |-> FALSE, encoding |-> None, lines |-> <<>>]
  ELSE IF Utf8Valid(bytes)
       THEN [ok |-> TRUE, encoding |-> <<"u","t","f","-","8">>, lines |-> ReadLinesOf(Utf8Decode(bytes))]
       ELSE [ok |-> TRUE, encoding |-> <<"l","a","t","i","n","-","1">>, lines |-> ReadLinesOf(Latin1Decode(bytes))]

\* line 275: the encoding the output is opened with
WriteEncoding(read_encoding) == <<"u","t","f","-","8">>

\* lines 275-276: f.writelines(new_lines)
WrittenBytes(out_lines, enc, sep) ==
  LET text == TranslateNewlinesOut(Concat(out_lines), sep)
  IN  IF enc = <<"u","t","f","-","8">> THEN Utf8Encode(text)
      ELSE [k \in 1..Len(text) |->
              IF \E p \in Latin1Pairs : p[2] = text[k]
              THEN (CHOOSE p \in Latin1Pairs : p[2] = text[k])[1] ELSE text[k]]

(***************************************************************************)
(* The regular expression of line 264,                                     *)
(*   ^( \s* )( [-+]? \d* \.? \d+ (?: [Ee] [-+]? \d+ )? )( \s* )( [,;] .* )$ *)
(* (written here with blanks between its parts).                           *)
(* A number holds no whitespace and no delimiter, so group 2 is the run of *)
(* characters from the first non-blank one to the first blank or           *)
(* delimiter, and it must be a number as a whole.                          *)
(***************************************************************************)
AllDigits(s) == \A k \in 1..Len(s) : s[k] \in Digits

\* \d*\.?\d+
IsMantissa(s) ==
  /\ s # <<>>
  /\ s[Len(s)] \in Digits
  /\ \A k \in 1..Len(s) : s[k] \in Digits \cup {"."}
  /\ Cardinality({k \in 1..Len(s) : s[k] = "."}) <= 1

\* [-+]?\d+
IsExponent(s) ==
  LET d == IF s # <<>> /\ s[1] \in {"-", "+"} THEN Tail(s) ELSE s
  IN  d # <<>> /\ AllDigits(d)

\* [-+]?\d*\.?\d+(?:[Ee][-+]?\d+)?
IsNumber(tok) ==
  LET u == IF tok # <<>> /\ tok[1] \in {"-", "+"} THEN Tail(tok) ELSE tok
      es == {k \in 1..Len(u) : u[k] \in {"E", "e"}}
  IN  IF es = {} THEN IsMantissa(u)
      ELSE /\ IsMantissa(SubSeq(u, 1, MinOf(es) - 1))
           /\ IsExponent(SubSeq(u, MinOf(es) + 1, Len(u)))

\* re.match(...): [ok, g1, g2, g3, g4]
NumberMatch(content) ==
  LET c == content
      n == Len(c)
      nonblank == {k \in 1..n : c[k] \notin Whitespace}
      start == IF nonblank = {} THEN n + 1 ELSE MinOf(nonblank)
      stops == {k \in start..n : c[k] \in Whitespace \cup {",", ";"}}
      stop == IF stops = {} THEN n + 1 ELSE MinOf(stops)
      after == {k \in stop..n : c[k] \notin Whitespace}
      delim == IF after = {} THEN n + 1 ELSE MinOf(after)
      ok == /\ delim <= n
            /\ c[delim] \in {",", ";"}
            /\ IsNumber(SubSeq(c, start, stop - 1))
            /\ ~HasChar(c, "\n")
  IN  [ok |-> ok,
       g1 |-> SubSeq(c, 1, start - 1),
       g2 |-> SubSeq(c, start, stop - 1),
       g3 |-> SubSeq(c, stop, delim - 1),
       g4 |-> SubSeq(c, delim, n)]

(***************************************************************************)
(* _save_with_text_replacement, lines 213-273.                             *)
(***************************************************************************)
NA == <<"N","/","A">>

UNKNOWN == <<"U","N","K","N","O","W","N">>

\* lines 215-219: one item of target_updates entered in the table
AddUpdate(map, item) ==
  LET t == Upper(item.type)
      n == Upper(item.name)
      f == Upper(item.field)
      byName == DictGet(map, t, <<>>)
      byField == DictGet(byName, n, <<>>)
  IN  DictSet(map, t, DictSet(byName, n, DictSet(byField, f, item.value)))

RECURSIVE BuildUpdatesMap(_, _)
BuildUpdatesMap(map, items) ==
  IF items = <<>> THEN map
  ELSE BuildUpdatesMap(AddUpdate(map, Head(items)), Tail(items))

\* .replace(" ","").replace("_","") of lines 255
DropSpaceUnderscore(s) == Remove(Remove(s, " "), "_")

\* mutant of LabelMatches: the labels compared as written, spaces and
\* underscores kept
LabelMatchesVerbatim(tk, field_key) == Contains(field_key, tk)

\* line 255: the test of one pending label tk against the comment's field_key
LabelMatches(tk, field_key) ==
  Contains(DropSpaceUnderscore(field_key), DropSpaceUnderscore(tk))

\* lines 248-249
FieldKey(line) ==
  LET comment == Strip(SplitSecond(line, "!"))
  IN  IF StartsWith(comment, <<"-"," ">>)
      THEN Upper(Strip(SubSeq(comment, 3, Len(comment))))
      ELSE Upper(comment)

\* lines 253-257: the positions of target_fields whose label matches; the loop
\* breaks at the first
MatchingFields(target_fields, field_key) ==
  {j \in 1..Len(target_fields) : LabelMatches(target_fields[j].k, field_key)}

\* lines 261-271: the line with matched_val written in; how is "regex",
\* "fallback", or "kept" when neither form applies
Substitute(line, matched_val) ==
  LET idx_bang == Find(line, "!")
      content == SubSeq(line, 1, idx_bang - 1)
      comment_part == SubSeq(line, idx_bang, Len(line))
      m == NumberMatch(RStripNewline(content))
      parts == SplitOnce(content, ",")
  IN  IF m.ok
      THEN [how |-> "regex",
            line |-> m.g1 \o FormatFloat(matched_val) \o m.g3 \o m.g4 \o comment_part]
      ELSE IF Len(parts) = 2
           THEN [how |-> "fallback",
                 line |-> <<" "," "," "," ">> \o FormatFloat(matched_val) \o <<",">> \o parts[2]
                          \o comment_part]
           ELSE [how |-> "kept", line |-> line]

\* lines 229-238: the state after the block-opening test
OpenBlock(line, st, map) ==
  LET stripped == Strip(line)
      possible_type == Upper(Strip(Remove(SplitHead(SplitHead(stripped, "!"), ","), ";")))
  IN  IF ~st.in_obj /\ stripped # <<>> /\ ~StartsWith(stripped, <<"!">>)
      THEN IF DictHas(map, possible_type)
           THEN [current_type |-> possible_type, in_obj |-> TRUE, current_name |-> NA]
           ELSE IF HasChar(stripped, ",") \/ HasChar(stripped, ";")
                THEN [st EXCEPT !.in_obj = TRUE, !.current_type = UNKNOWN]
                ELSE st
      ELSE st

\* lines 241-244: block closing and name capture, for a line inside a block
CloseAndName(line, st) ==
  LET closed == IF HasChar(SplitHead(line, "!"), ";")
                THEN [st EXCEPT !.in_obj = FALSE] ELSE st
  IN  IF Contains(line, <<"!","-"," ","N","a","m","e">>)
      THEN [closed EXCEPT !.current_name =
              Upper(Strip(Remove(Remove(SplitHead(line, "!"), ","), ";")))]
      ELSE closed

\* mutant of PatchLine: a line that closes the block is not tried for
\* substitution
PatchLineClosedFirst(line, st, map) ==
  LET opened == OpenBlock(line, st, map)
      inside == opened.in_obj
      named == IF inside THEN CloseAndName(line, opened) ELSE opened
      tried == named.in_obj /\ DictHas(map, named.current_type) /\ HasChar(line, "!")
      target_fields ==
        IF tried THEN DictGet(DictGet(map, named.current_type, <<>>), named.current_name, <<>>)
        ELSE <<>>
      hits == IF tried THEN MatchingFields(target_fields, FieldKey(line)) ELSE {}
      matched == hits # {}
      sub == IF matched THEN Substitute(line, target_fields[MinOf(hits)].v)
             ELSE [how |-> "kept", line |-> line]
  IN  [st |-> named, line |-> sub.line,
       log |-> [before |-> st, inside |-> inside, tried |-> tried, matched |-> matched,
                how |-> sub.how, type |-> named.current_type, name |-> named.current_name]]

\* lines 226-273: one iteration of the loop over lines
PatchLine(line, st, map) ==
  LET opened == OpenBlock(line, st, map)
      inside == opened.in_obj
      named == IF inside THEN CloseAndName(line, opened) ELSE opened
      tried == inside /\ DictHas(map, named.current_type) /\ HasChar(line, "!")
      target_fields ==
        IF tried THEN DictGet(DictGet(map, named.current_type, <<>>), named.current_name, <<>>)
        ELSE <<>>
      hits == IF tried THEN MatchingFields(target_fields, FieldKey(line)) ELSE {}
      matched == hits # {}
      sub == IF matched THEN Substitute(line, target_fields[MinOf(hits)].v)
             ELSE [how |-> "kept", line |-> line]
  IN  [st |-> named, line |-> sub.line,
       log |-> [before |-> st, inside |-> inside, tried |-> tried, matched |-> matched,
                how |-> sub.how, type |-> named.current_type, name |-> named.current_name]]

(***************************************************************************)
(* The parsed model.  IDF.setiddname(idd_path) and IDF(idf_path), lines    *)
(* 29-30, are the eppy library: comments are dropped, the text is cut at   *)
(* every ";" into records and each record at every "," into stripped      *)
(* values, the first being the object type.  An object is                  *)
(* [fieldnames, fieldvalues]; fieldnames come from the IDD and start with  *)
(* "key", fieldvalues are the values written in the file.                  *)
(***************************************************************************)
Idd ==
  << [k |-> <<"L","I","G","H","T","S">>,
      v |-> << <<"k","e","y">>, <<"N","a","m","e">>, <<"D","e","s","i","g","n","_","L","e","v","e","l","_","C","a","l","c","u","l","a","t","i","o","n","_","M","e","t","h","o","d">>,
               <<"D","e","s","i","g","n","_","L","e","v","e","l">>, <<"W","a","t","t","s","_","p","e","r","_","Z","o","n","e","_","F","l","o","o","r","_","A","r","e","a">> >>],
     [k |-> <<"Z","O","N","E">>,
      v |-> << <<"k","e","y">>, <<"N","a","m","e">>, <<"S","o","m","e","_","F","i","e","l","d">>, <<"M","u","l","t","i","p","l","i","e","r">>, <<"V","o","l","u","m","e">> >>],
     [k |-> <<"T","I","M","E","S","T","E","P">>,
      v |-> << <<"k","e","y">>, <<"N","u","m","b","e","r","_","o","f","_","T","i","m","e","s","t","e","p","s","_","p","e","r","_","H","o","u","r">> >>],
     [k |-> <<"S","A","M","P","L","E">>,
      v |-> << <<"k","e","y">>, <<"f","i","e","l","d","0">>, <<"f","i","e","l","d","1">>, <<"f","i","e","l","d","2">>, <<"f","i","e","l","d","3">>, <<"f","i","e","l","d","4">> >>] >>

\* s.split(c)
SplitAll(s, c) == Pieces(s, c, FALSE)

\* the text of a file without its comments
DropComments(file_lines) ==
  Concat([j \in 1..Len(file_lines) |-> SplitHead(file_lines[j], "!") \o <<"\n">>])

\* the records of a file: each a sequence of stripped values
Records(bytes) ==
  LET chunks == SplitAll(DropComments(SplitKeepEnds(bytes)), ";")
      values(chunk) == LET vs == SplitAll(chunk, ",")
                       IN  [j \in 1..Len(vs) |-> Strip(vs[j])]
  IN  [j \in 1..Len(chunks) |-> values(chunks[j])]

\* a file eppy loads under Idd: every record but the blank remainder after the
\* last ";" is an object of a declared type with no more values than fields
Loadable(bytes) ==
  LET rs == Records(bytes)
  IN  /\ rs[Len(rs)] = << <<>> >>
      /\ \A j \in 1..(Len(rs) - 1) :
           /\ DictHas(Idd, Upper(rs[j][1]))
           /\ Len(rs[j]) <= Len(DictGet(Idd, Upper(rs[j][1]), <<>>))

\* self.base_idf.idfobjects: for every type of the IDD, its objects in file order
ParsedModel(bytes) ==
  LET rs == Records(bytes)
      objects(t) ==
        LET mine == SelectSeq(SubSeq(rs, 1, Len(rs) - 1), LAMBDA r : Upper(r[1]) = t)
        IN  [j \in 1..Len(mine) |->
               [fieldnames |-> DictGet(Idd, t, <<>>), fieldvalues |-> mine[j]]]
  IN  [j \in 1..Len(Idd) |-> [k |-> Idd[j].k, v |-> objects(Idd[j].k)]]

\* getattr(obj, attr, default): the value at the position of attr in fieldnames,
\* '' when the file gives no value there, default when obj has no such field
GetAttr(obj, attr, default) ==
  LET at == {j \in 1..Len(obj.fieldnames) : obj.fieldnames[j] = attr}
  IN  IF at = {} THEN default
      ELSE IF MinOf(at) <= Len(obj.fieldvalues) THEN obj.fieldvalues[MinOf(at)]
      ELSE <<>>

(***************************************************************************)
(* The object index, lines 37-46 and 108-151.                              *)
(***************************************************************************)
\* lines 135-138: a value the scan for the last written value passes over
IsBlankValue(val) == val = None \/ Strip(val) = <<>>

\* mutant of ActiveFields: every value that is false in Python, 0 among them,
\* counts as blank
ActiveFieldsFalsyBlank(obj) ==
  LET written == {idx \in 1..Len(obj.fieldvalues) :
                    /\ ~IsBlankValue(obj.fieldvalues[idx])
                    /\ obj.fieldvalues[idx] # <<"0">>}
      last_idx == IF written = {} THEN 0 ELSE MaxOf(written)
      kept == {idx \in 1..Len(obj.fieldnames) :
                 idx <= last_idx /\ Lower(obj.fieldnames[idx]) # <<"k","e","y">>}
      idxs == SelectSeq([idx \in 1..Len(obj.fieldnames) |-> idx], LAMBDA idx : idx \in kept)
  IN  [j \in 1..Len(idxs) |-> obj.fieldnames[idxs[j]]]

\* mutant of ActiveFields: only the fields that hold a value
ActiveFieldsWrittenOnly(obj) ==
  LET kept == {idx \in 1..Len(obj.fieldnames) :
                 /\ idx <= Len(obj.fieldvalues)
                 /\ ~IsBlankValue(obj.fieldvalues[idx])
                 /\ Lower(obj.fieldnames[idx]) # <<"k","e","y">>}
      idxs == SelectSeq([idx \in 1..Len(obj.fieldnames) |-> idx], LAMBDA idx : idx \in kept)
  IN  [j \in 1..Len(idxs) |-> obj.fieldnames[idxs[j]]]

\* lines 125-151: _get_active_fields
ActiveFields(obj) ==
  LET written == {idx \in 1..Len(obj.fieldvalues) : ~IsBlankValue(obj.fieldvalues[idx])}
      last_idx == IF written = {} THEN 0 ELSE MaxOf(written)
      kept == {idx \in 1..Len(obj.fieldnames) :
                 idx <= last_idx /\ Lower(obj.fieldnames[idx]) # <<"k","e","y">>}
      idxs == SelectSeq([idx \in 1..Len(obj.fieldnames) |-> idx], LAMBDA idx : idx \in kept)
  IN  [j \in 1..Len(idxs) |-> obj.fieldnames[idxs[j]]]

\* lines 108-113: get_all_fields
GetAllFields(idfobjects, object_type) ==
  IF DictHas(idfobjects, object_type) /\ Len(DictGet(idfobjects, object_type, <<>>)) > 0
  THEN ActiveFields(DictGet(idfobjects, object_type, <<>>)[1])
  ELSE <<>>

\* lines 115-123: get_object_sample, a dict from field to value
GetObjectSample(idfobjects, object_type) ==
  IF DictHas(idfobjects, object_type) /\ Len(DictGet(idfobjects, object_type, <<>>)) > 0
  THEN LET obj == DictGet(idfobjects, object_type, <<>>)[1]
           fs == ActiveFields(obj)
       IN  [j \in 1..Len(fs) |-> [k |-> fs[j], v |-> GetAttr(obj, fs[j], <<>>)]]
  ELSE <<>>

\* the entry of one object type in the summary, lines 42-45
SummaryEntry(entry) ==
  [k |-> entry.k,
   v |-> [count |-> Len(entry.v),
          all_names |-> [j \in 1..Len(entry.v) |-> GetAttr(entry.v[j], <<"N","a","m","e">>, NA)]]]

\* mutant of GetIdfObjectSummary: an entry for every object type of the IDD
GetIdfObjectSummaryAllTypes(idfobjects) ==
  [j \in 1..Len(idfobjects) |-> SummaryEntry(idfobjects[j])]

\* lines 37-46: get_idf_object_summary
GetIdfObjectSummary(idfobjects) ==
  LET present == SelectSeq(idfobjects, LAMBDA entry : Len(entry.v) > 0)
  IN  [j \in 1..Len(present) |-> SummaryEntry(present[j])]

(***************************************************************************)
(* float(old_val) and round(val_num * coef, 6), lines 190-191.             *)
(***************************************************************************)
RECURSIVE DigitsValue(_)
DigitsValue(s) ==
  IF s = <<>> THEN 0
  ELSE LET d == CHOOSE n \in 0..9 : DigitChar(n) = s[Len(s)]
       IN  10 * DigitsValue(SubSeq(s, 1, Len(s) - 1)) + d

\* float(text): [ok, value]; not ok is ValueError
ParseFloat(text) ==
  LET t == Strip(text)
      neg == t # <<>> /\ t[1] = "-"
      u == IF t # <<>> /\ t[1] \in {"-", "+"} THEN Tail(t) ELSE t
      es == {k \in 1..Len(u) : u[k] \in {"E", "e"}}
      mant == IF es = {} THEN u ELSE SubSeq(u, 1, MinOf(es) - 1)
      expo == IF es = {} THEN <<>> ELSE SubSeq(u, MinOf(es) + 1, Len(u))
      dot == Find(mant, ".")
      whole == IF dot = 0 THEN mant ELSE SubSeq(mant, 1, dot - 1)
      frac == IF dot = 0 THEN <<>> ELSE SubSeq(mant, dot + 1, Len(mant))
      eneg == expo # <<>> /\ expo[1] = "-"
      edig == IF expo # <<>> /\ expo[1] \in {"-", "+"} THEN Tail(expo) ELSE expo
      ok == /\ AllDigits(whole) /\ AllDigits(frac) /\ whole \o frac # <<>>
            /\ (es = {} \/ (edig # <<>> /\ AllDigits(edig)))
      e10 == (IF eneg THEN 0 - DigitsValue(edig) ELSE DigitsValue(edig)) - Len(frac) + 6
      digits == DigitsValue(whole \o frac)
      abs == IF e10 >= 0 THEN digits * (10 ^ e10) ELSE digits \div (10 ^ (0 - e10))
  IN  [ok |-> ok, value |-> IF ~ok THEN 0 ELSE IF neg THEN 0 - abs ELSE abs]

\* round(val_num * coef, 6): val_num and coef in millionths, ties to even.  The
\* product is formed in parts of three decimals, each within 32-bit integers
RoundProduct(val_num, coef) ==
  LET neg == (val_num < 0) # (coef < 0)
      x == IF val_num < 0 THEN 0 - val_num ELSE val_num
      y == IF coef < 0 THEN 0 - coef ELSE coef
      xh == x \div 1000
      xl == x % 1000
      yh == y \div 1000
      yl == y % 1000
      mid == xh * yl + xl * yh
      low == (mid % 1000) * 1000 + xl * yl
      q == xh * yh + mid \div 1000 + low \div Micro
      r == low % Micro
      n == IF 2 * r > Micro \/ (2 * r = Micro /\ q % 2 = 1) THEN q + 1 ELSE q
  IN  IF neg THEN 0 - n ELSE n

(***************************************************************************)
(* execute_modification, lines 160-200: the update requests of one job.    *)
(***************************************************************************)
\* lines 180, 182: .lower().replace("_", "").replace(" ", "")
NormField(s) == Remove(Remove(Lower(s), "_"), " ")

\* mutant of FieldUpdates: a field whose scaled value equals its old value asks
\* for no update
FieldUpdatesChangedOnly(obj_type, obj, field, coef) ==
  LET norm_field == NormField(Strip(field))
      hits == {j \in 1..Len(obj.fieldnames) : NormField(obj.fieldnames[j]) = norm_field}
      target_attr == obj.fieldnames[MinOf(hits)]
      old_val == GetAttr(obj, target_attr, <<"0">>)
      num == IF old_val # <<>> THEN ParseFloat(old_val) ELSE [ok |-> TRUE, value |-> 0]
  IN  IF hits = {} \/ ~num.ok \/ RoundProduct(num.value, coef) = num.value THEN <<>>
      ELSE << [type |-> obj_type,
               name |-> GetAttr(obj, <<"N","a","m","e">>, NA),
               field |-> target_attr,
               value |-> RoundProduct(num.value, coef)] >>

\* lines 175-200: the requests of one field of one object, none or one
FieldUpdates(obj_type, obj, field, coef) ==
  LET norm_field == NormField(Strip(field))
      hits == {j \in 1..Len(obj.fieldnames) : NormField(obj.fieldnames[j]) = norm_field}
      target_attr == obj.fieldnames[MinOf(hits)]
      old_val == GetAttr(obj, target_attr, <<"0">>)
      num == IF old_val # <<>> THEN ParseFloat(old_val) ELSE [ok |-> TRUE, value |-> 0]
  IN  IF hits = {} \/ ~num.ok THEN <<>>
      ELSE << [type |-> obj_type,
               name |-> GetAttr(obj, <<"N","a","m","e">>, NA),
               field |-> target_attr,
               value |-> RoundProduct(num.value, coef)] >>

RECURSIVE ObjectUpdates(_, _, _, _)
ObjectUpdates(obj_type, obj, fields, coef) ==
  IF fields = <<>> THEN <<>>
  ELSE FieldUpdates(obj_type, obj, Head(fields), coef)
       \o ObjectUpdates(obj_type, obj, Tail(fields), coef)

RECURSIVE ObjectsUpdates(_, _, _, _)
ObjectsUpdates(obj_type, objs, fields, coef) ==
  IF objs = <<>> THEN <<>>
  ELSE ObjectUpdates(obj_type, Head(objs), fields, coef)
       \o ObjectsUpdates(obj_type, Tail(objs), fields, coef)

\* lines 160-200
RECURSIVE TargetUpdates(_, _)
TargetUpdates(idfobjects, mods) ==
  IF mods = <<>> THEN <<>>
  ELSE LET mod == Head(mods)
       IN  (IF ~DictHas(idfobjects, mod.object_type) THEN <<>>
            ELSE ObjectsUpdates(mod.object_type, DictGet(idfobjects, mod.object_type, <<>>),
                                mod.fields, mod.coef))
           \o TargetUpdates(idfobjects, Tail(mods))

\* line 204: the value execute_modification returns
ReturnValue(updates) == Len(updates)

(***************************************************************************)
(* Inputs: source documents, update sets, modifications.                   *)
(***************************************************************************)
\* a Lights object as an IDF editor writes it, LF line ends
FragLightsL1 ==
  <<"L","i","g","h","t","s",",","\n"," "," ","L","1",","," ","!","-"," ","N","a","m","e","\n"," "," "," "," ","E","q","u","i","p","m","e","n","t","L","e","v","e","l",","," "," ","!","-"," ","D","e","s","i","g","n"," ","L","e","v","e","l"," ","C","a","l","c","u","l","a","t","i","o","n"," ","M","e","t","h","o","d","\n"," "," ","1","0","0",".","0"," ",","," ","!","-"," ","D","e","s","i","g","n"," ","L","e","v","e","l","\n"," "," ","5",";"," ","!","-"," ","W","a","t","t","s","_","p","e","r","_","Z","o","n","e","_","F","l","o","o","r","_","A","r","e","a","\n">>

\* a Lights object with CRLF line ends, tabs, a signed exponent and a bare fraction
FragLightsL2 ==
  <<"L","i","g","h","t","s",",","\r","\n"," "," ","L","2",",","\t","!","-"," ","N","a","m","e","\r","\n"," "," ","W","a","t","t","s","/","A","r","e","a",","," ","!","-"," ","D","e","s","i","g","n"," ","L","e","v","e","l"," ","C","a","l","c","u","l","a","t","i","o","n"," ","M","e","t","h","o","d","\r","\n","\t","-","7",".","5","e","1",","," "," ","!","-","D","e","s","i","g","n"," ","L","e","v","e","l","\r","\n"," "," ",".","5"," ",";"," ","!","-"," ","W","a","t","t","s"," ","p","e","r"," ","Z","o","n","e"," ","F","l","o","o","r"," ","A","r","e","a","\r","\n">>

\* a Zone block with several values on the line of the commented field
FragZoneZ1 ==
  <<"Z","O","N","E",",","\n"," "," ","Z","1",","," ","!","-"," ","N","a","m","e","\n","Z","O","N","E",","," ","Z","1",","," ","1","0","0",".","0",","," ","!","-"," ","S","o","m","e"," ","F","i","e","l","d","\n"," "," ","1",";"," ","!","-"," ","M","u","l","t","i","p","l","i","e","r","\n">>

\* an object on one line, without comments
FragZoneZ2 == <<"Z","o","n","e",","," ","Z","2",","," ","3",";","\n">>

\* an object of a type that has no Name field
FragTimestep == <<"T","i","m","e","s","t","e","p",",","\n"," "," ","4",";"," ","!","-"," ","N","u","m","b","e","r"," ","o","f"," ","T","i","m","e","s","t","e","p","s"," ","p","e","r"," ","H","o","u","r","\n">>

\* a comment line holding e-acute, encoded in Latin-1 and in UTF-8
FragNoteLatin1 == <<"!"," ","c","a","f","0xE9","\n">>

FragNoteUtf8 == <<"!"," ","c","a","f","0xC3","0xA9","\r","\n">>

\* a blank line
FragBlank == <<"\n">>

\* an object with blank values between and after its written values
FragSample ==
  <<"S","a","m","p","l","e",",","\n"," "," ","A",","," ","!","-"," ","f","i","e","l","d","0","\n"," "," ",","," ","!","-"," ","f","i","e","l","d","1","\n"," "," ","5",","," ","!","-"," ","f","i","e","l","d","2","\n"," "," ",","," ","!","-"," ","f","i","e","l","d","3","\n"," "," ",";"," ","!","-"," ","f","i","e","l","d","4","\n">>

\* a Zone block with a comment that begins with the word Name on a line that
\* is not the name line, a zero and a blank last value
FragZoneZ3 ==
  <<"Z","o","n","e",",","\n"," "," ","Z","3",","," ","!","-"," ","N","a","m","e","\n"," "," ","7",","," ","!","-"," ","N","a","m","e"," ","o","f"," ","S","c","h","e","d","u","l","e","\n"," "," ","0",","," ","!","-"," ","M","u","l","t","i","p","l","i","e","r","\n"," "," ",";"," ","!","-"," ","V","o","l","u","m","e","\n">>

Fragments ==
  << FragLightsL1, FragLightsL2, FragZoneZ1, FragZoneZ2, FragTimestep,
     FragNoteLatin1, FragNoteUtf8, FragBlank, FragSample, FragZoneZ3 >>

\* the source documents: up to MaxFragments fragments, one after the other
Documents ==
  UNION { { Concat([j \in 1..n |-> Fragments[pick[j]]]) : pick \in [1..n -> 1..Len(Fragments)] }
          : n \in 1..MaxFragments }

Request(t, n, f, v) == [type |-> t, name |-> n, field |-> f, value |-> v]

\* the update sets handed to the patcher
UpdateSets ==
  { <<>>,
    << Request(<<"L","i","g","h","t","s">>, <<"L","1">>, <<"D","e","s","i","g","n"," ","L","e","v","e","l">>, 80 * Micro) >>,
    << Request(<<"L","I","G","H","T","S">>, <<"l","1">>, <<"W","a","t","t","s"," ","p","e","r"," ","Z","o","n","e"," ","F","l","o","o","r"," ","A","r","e","a">>, 4 * Micro),
       Request(<<"L","i","g","h","t","s">>, <<"L","2">>, <<"d","e","s","i","g","n","_","l","e","v","e","l">>, 0 - 60 * Micro) >>,
    << Request(<<"Z","O","N","E">>, <<"Z","1">>, <<"S","o","m","e"," ","F","i","e","l","d">>, 80 * Micro) >>,
    << Request(<<"L","i","g","h","t","s">>, <<"L","9">>, <<"D","e","s","i","g","n"," ","L","e","v","e","l">>, 1500000),
       Request(<<"R","o","o","f">>, <<"R","1">>, <<"A","r","e","a">>, 2 * Micro) >>,
    << Request(<<"T","I","M","E","S","T","E","P">>, NA, <<"N","u","m","b","e","r","_","o","f","_","T","i","m","e","s","t","e","p","s","_","p","e","r","_","H","o","u","r">>, 3200000) >>,
    << Request(<<"Z","o","n","e">>, <<"Z","3">>, <<"M","u","l","t","i","p","l","i","e","r">>, 2 * Micro) >>,
    << Request(<<"Z","O","N","E">>, <<"Z","1">>, <<"N","a","m","e">>, 80 * Micro),
       Request(<<"Z","O","N","E">>, <<"8","0",".","0">>, <<"M","u","l","t","i","p","l","i","e","r">>, 2 * Micro) >>,
    << Request(<<"L","i","g","h","t","s">>, <<"L","1">>, <<"D","e","s","i","g","n"," ","L","e","v","e","l">>, 80 * Micro),
       Request(<<"L","I","G","H","T","S">>, <<"l","1">>, <<"D","E","S","I","G","N"," ","L","E","V","E","L">>, 90 * Micro),
       Request(<<"L","i","g","h","t","s">>, <<"L","1">>, <<"D","e","s","i","g","n","_","L","e","v","e","l">>, 70 * Micro) >> }

Modification(t, fs, c) == [object_type |-> t, fields |-> fs, coef |-> c]

\* the arguments of execute_modification: coefficients 0.8 and 1.0
ModificationLists ==
  { << Modification(<<"L","I","G","H","T","S">>, << <<"D","e","s","i","g","n","_","L","e","v","e","l">> >>, 800000) >>,
    << Modification(<<"L","I","G","H","T","S">>, << <<"D","e","s","i","g","n","_","L","e","v","e","l">>, <<" ","w","a","t","t","s"," ","p","e","r"," ","z","o","n","e"," ","f","l","o","o","r"," ","a","r","e","a">> >>, Micro) >>,
    << Modification(<<"Z","O","N","E">>, << <<"S","o","m","e","_","F","i","e","l","d">> >>, 800000),
       Modification(<<"T","I","M","E","S","T","E","P">>, << <<"N","u","m","b","e","r","_","o","f","_","T","i","m","e","s","t","e","p","s","_","p","e","r","_","H","o","u","r">> >>, 800000) >>,
    << Modification(<<"R","O","O","F">>, << <<"A","r","e","a">> >>, 800000),
       Modification(<<"L","I","G","H","T","S">>, << <<"D","e","s","i","g","n","_","L","e","v","e","l","_","C","a","l","c","u","l","a","t","i","o","n","_","M","e","t","h","o","d">>, <<"L","u","m","e","n","s">> >>, 800000) >>,
    << Modification(<<"L","I","G","H","T","S">>, << <<"D","e","s","i","g","n","_","L","e","v","e","l","_","C","a","l","c","u","l","a","t","i","o","n","_","M","e","t","h","o","d">>, <<"D","e","s","i","g","n","_","L","e","v","e","l">> >>, 800000) >> }

\* lines 541-547: the mods of one run, every group with the run's coefficient
WithCoef(mods, coef) == [j \in 1..Len(mods) |-> [mods[j] EXCEPT !.coef = coef]]

\* line 520: the coefficients of a batch, 0.8 and 1.0, 1.2 and 0.8
CoefficientLists == { <<800000, Micro>>, <<1200000, 800000>> }

(***************************************************************************)
(* The state machine.                                                      *)
(***************************************************************************)
\* the local variables of _save_with_text_replacement before it runs
PatcherIdle ==
  /\ src_exists = TRUE
  /\ out_file = NoFile
  /\ result = None
  /\ encoding = None
  /\ out_encoding = None
  /\ lines = <<>>
  /\ updates_map = <<>>
  /\ new_lines = <<>>
  /\ current_type = None
  /\ current_name = None
  /\ in_obj = FALSE
  /\ trace = <<>>

\* no query of the object index was made yet
NoAnswer == [op |-> "none", object_type |-> None, value |-> <<>>]

\* the platform, and a session in which nothing was generated or queried yet
SessionIdle ==
  /\ linesep \in LineSeps
  /\ coefficients = <<>>
  /\ results = <<>>
  /\ answer = NoAnswer

\* the patcher called on any document with any update set
Init ==
  /\ pc = "read"
  /\ src_bytes \in Documents
  /\ base_idf = <<>>
  /\ modifications = <<>>
  /\ target_updates \in UpdateSets
  /\ PatcherIdle
  /\ SessionIdle

\* a generation job: the object was constructed on a loadable file (lines 24-32)
\* and execute_modification is called
InitJob ==
  /\ pc = "execute"
  /\ src_bytes \in {d \in Documents : Loadable(d)}
  /\ base_idf = ParsedModel(src_bytes)
  /\ modifications \in ModificationLists
  /\ target_updates = <<>>
  /\ PatcherIdle
  /\ SessionIdle

\* lines 160-200
ExecuteModification ==
  /\ pc = "execute"
  /\ target_updates' = TargetUpdates(base_idf, modifications)
  /\ pc' = "read"
  /\ UNCHANGED <<src_exists, src_bytes, out_file, base_idf, modifications, result,
                 encoding, out_encoding, lines, updates_map, new_lines,
                 current_type, current_name, in_obj, trace>>
  /\ UNCHANGED sessionVars

\* the environment: temp_files is removed (line 328) before the source is read
Unlink ==
  /\ pc = "read"
  /\ src_exists
  /\ src_exists' = FALSE
  /\ UNCHANGED <<pc, src_bytes, out_file, base_idf, modifications, target_updates,
                 result, encoding, out_encoding, lines, updates_map, new_lines,
                 current_type, current_name, in_obj, trace>>
  /\ UNCHANGED sessionVars

\* lines 208-211
ReadSourceFile ==
  /\ pc = "read"
  /\ LET r == ReadSource(src_exists, src_bytes)
     IN  /\ pc' = IF r.ok THEN "index" ELSE "failed"
         /\ encoding' = r.encoding
         /\ lines' = r.lines
  /\ UNCHANGED <<src_exists, src_bytes, out_file, base_idf, modifications,
                 target_updates, result, out_encoding, updates_map, new_lines,
                 current_type, current_name, in_obj, trace>>
  /\ UNCHANGED sessionVars

\* lines 214-224
BuildIndex ==
  /\ pc = "index"
  /\ updates_map' = BuildUpdatesMap(<<>>, target_updates)
  /\ new_lines' = <<>>
  /\ current_type' = None
  /\ current_name' = None
  /\ in_obj' = FALSE
  /\ pc' = "loop"
  /\ UNCHANGED <<src_exists, src_bytes, out_file, base_idf, modifications,
                 target_updates, result, encoding, out_encoding, lines, trace>>
  /\ UNCHANGED sessionVars

\* lines 226-273: the loop body on the next line
ProcessLine ==
  /\ pc = "loop"
  /\ Len(new_lines) < Len(lines)
  /\ LET r == PatchLine(lines[Len(new_lines) + 1],
                        [current_type |-> current_type, current_name |-> current_name,
                         in_obj |-> in_obj],
                        updates_map)
     IN  /\ current_type' = r.st.current_type
         /\ current_name' = r.st.current_name
         /\ in_obj' = r.st.in_obj
         /\ new_lines' = Append(new_lines, r.line)
         /\ trace' = Append(trace, r.log)
  /\ UNCHANGED <<pc, src_exists, src_bytes, out_file, base_idf, modifications,
                 target_updates, result, encoding, out_encoding, lines, updates_map>>
  /\ UNCHANGED sessionVars

\* lines 275-276
WriteOutput ==
  /\ pc = "loop"
  /\ Len(new_lines) = Len(lines)
  /\ out_file' = WrittenBytes(new_lines, WriteEncoding(encoding), linesep)
  /\ out_encoding' = WriteEncoding(encoding)
  /\ pc' = "written"
  /\ UNCHANGED <<src_exists, src_bytes, base_idf, modifications, target_updates,
                 result, encoding, lines, updates_map, new_lines,
                 current_type, current_name, in_obj, trace>>
  /\ UNCHANGED sessionVars

\* line 204
Return ==
  /\ pc = "written"
  /\ result' = ReturnValue(target_updates)
  /\ pc' = "done"
  /\ UNCHANGED <<src_exists, src_bytes, out_file, base_idf, modifications,
                 target_updates, encoding, out_encoding, lines, updates_map,
                 new_lines, current_type, current_name, in_obj, trace>>
  /\ UNCHANGED sessionVars

\* a finished run of execute_modification, as line 552 records it, with what the
\* run read, asked for and wrote
FinishedRun ==
  [coef |-> modifications[1].coef, count |-> result, src_bytes |-> src_bytes,
   base_idf |-> base_idf, target_updates |-> target_updates, lines |-> lines,
   new_lines |-> new_lines, trace |-> trace, out_file |-> out_file]

\* the local variables of a run, as the next call finds them
PatcherReset ==
  /\ out_file' = NoFile
  /\ result' = None
  /\ encoding' = None
  /\ out_encoding' = None
  /\ lines' = <<>>
  /\ updates_map' = <<>>
  /\ new_lines' = <<>>
  /\ current_type' = None
  /\ current_name' = None
  /\ in_obj' = FALSE
  /\ trace' = <<>>

\* a batch: the object was constructed on a loadable file, field_config is set
\* and the generation loop makes its first call (lines 537-551)
InitBatch ==
  /\ pc = "execute"
  /\ src_bytes \in {d \in Documents : Loadable(d)}
  /\ base_idf = ParsedModel(src_bytes)
  /\ \E mods \in ModificationLists, cs \in CoefficientLists :
       /\ modifications = WithCoef(mods, Head(cs))
       /\ coefficients = Tail(cs)
  /\ target_updates = <<>>
  /\ PatcherIdle
  /\ linesep \in LineSeps
  /\ results = <<>>
  /\ answer = NoAnswer

\* lines 537-554: the run is recorded and the loop goes to the next coefficient,
\* or ends
NextCase ==
  /\ pc = "done"
  /\ results' = Append(results, FinishedRun)
  /\ pc' = IF coefficients = <<>> THEN "generated" ELSE "execute"
  /\ modifications' = IF coefficients = <<>> THEN modifications
                      ELSE WithCoef(modifications, Head(coefficients))
  /\ coefficients' = IF coefficients = <<>> THEN <<>> ELSE Tail(coefficients)
  /\ target_updates' = <<>>
  /\ PatcherReset
  /\ UNCHANGED <<src_exists, src_bytes, base_idf, linesep, answer>>

\* the object types the interface asks the index about: those of the IDD and
\* one the IDD does not declare
QueriedTypes == {Idd[j].k : j \in 1..Len(Idd)} \cup { <<"R","O","O","F">> }

\* the interface after construction on a loadable file, before any query
InitIndex ==
  /\ pc = "ui"
  /\ src_bytes \in {d \in Documents : Loadable(d)}
  /\ base_idf = ParsedModel(src_bytes)
  /\ modifications = <<>>
  /\ target_updates = <<>>
  /\ PatcherIdle
  /\ SessionIdle

\* lines 108-113, called for an object type
QueryAllFields ==
  /\ pc = "ui"
  /\ \E object_type \in QueriedTypes :
       answer' = [op |-> "get_all_fields", object_type |-> object_type,
                  value |-> GetAllFields(base_idf, object_type)]
  /\ UNCHANGED <<pc, src_exists, src_bytes, out_file, base_idf, modifications,
                 target_updates, result, encoding, out_encoding, lines, updates_map,
                 new_lines, current_type, current_name, in_obj, trace,
                 linesep, coefficients, results>>

\* lines 115-123, called for an object type
QueryObjectSample ==
  /\ pc = "ui"
  /\ \E object_type \in QueriedTypes :
       answer' = [op |-> "get_object_sample", object_type |-> object_type,
                  value |-> GetObjectSample(base_idf, object_type)]
  /\ UNCHANGED <<pc, src_exists, src_bytes, out_file, base_idf, modifications,
                 target_updates, result, encoding, out_encoding, lines, updates_map,
                 new_lines, current_type, current_name, in_obj, trace,
                 linesep, coefficients, results>>

\* lines 37-46
QuerySummary ==
  /\ pc = "ui"
  /\ answer' = [op |-> "get_idf_object_summary", object_type |-> None,
                value |-> GetIdfObjectSummary(base_idf)]
  /\ UNCHANGED <<pc, src_exists, src_bytes, out_file, base_idf, modifications,
                 target_updates, result, encoding, out_encoding, lines, updates_map,
                 new_lines, current_type, current_name, in_obj, trace,
                 linesep, coefficients, results>>

\* the patcher called again with the same update set, on the file its first
\* call wrote: self.idf_path is now that file and output_path a new one
Reapply ==
  /\ pc = "written"
  /\ results = <<>>
  /\ results' = << [src_bytes |-> src_bytes, target_updates |-> target_updates,
                    lines |-> lines, new_lines |-> new_lines, trace |-> trace,
                    out_file |-> out_file] >>
  /\ src_bytes' = out_file
  /\ PatcherReset
  /\ pc' = "read"
  /\ UNCHANGED <<src_exists, base_idf, modifications, target_updates,
                 linesep, coefficients, answer>>

Next == Unlink \/ ReadSourceFile \/ BuildIndex \/ ProcessLine \/ WriteOutput

NextJob == ExecuteModification \/ Next \/ Return

Spec == Init /\ [][Next]_vars

SpecJob == InitJob /\ [][NextJob]_vars

NextBatch == NextJob \/ NextCase

SpecBatch == InitBatch /\ [][NextBatch]_vars

NextReapply == Next \/ Reapply

SpecReapply == Init /\ [][NextReapply]_vars

NextIndex == QueryAllFields \/ QueryObjectSample \/ QuerySummary

SpecIndex == InitIndex /\ [][NextIndex]_vars

(***************************************************************************)
(* What the claims speak of.                                               *)
(***************************************************************************)
\* the lines of a file as bytes, each with its terminator
ByteLines(bytes) == SplitKeepEnds(bytes)

\* line i was rewritten by the loop body (line 266 or line 271 ran)
Substituted(i) == trace[i].how # "kept"

NumSubstitutions == Cardinality({i \in 1..Len(trace) : Substituted(i)})

\* the patcher has written its output
Written == pc \in {"written", "done"}

\* C1: every line the patcher did not substitute is, in the output file, the
\* bytes of the input line at the same position, terminator and encoding included
C1_BytePreservation ==
  Written =>
    \A i \in 1..Len(trace) :
      ~Substituted(i) =>
        /\ i <= Len(ByteLines(out_file))
        /\ ByteLines(out_file)[i] = ByteLines(src_bytes)[i]

\* C2: with an empty update set the output file equals the input file
C2_EmptyUpdateSetIdentity ==
  (Written /\ target_updates = <<>>) => out_file = src_bytes

\* C3: execute_modification returns the number of line substitutions the
\* patcher performed
C3_ReturnsSubstitutionCount ==
  pc = "done" => result = NumSubstitutions

\* C4: in state (ZONE, Z1, inside a block), with the one request
\* (ZONE, Z1, "Some Field") = 80.0, the line `ZONE, Z1, 100.0, !- Some Field`
\* becomes `ZONE, Z1, 80.0, !- Some Field`
C4_SingleFieldSubstitution ==
  \A i \in 1..Len(trace) :
    ( /\ lines[i] = <<"Z","O","N","E",","," ","Z","1",","," ","1","0","0",".","0",","," ","!","-"," ","S","o","m","e"," ","F","i","e","l","d","\n">>
      /\ trace[i].before = [current_type |-> <<"Z","O","N","E">>, current_name |-> <<"Z","1">>,
                            in_obj |-> TRUE]
      /\ target_updates = << Request(<<"Z","O","N","E">>, <<"Z","1">>, <<"S","o","m","e"," ","F","i","e","l","d">>, 80 * Micro) >> )
    => /\ new_lines[i] = <<"Z","O","N","E",","," ","Z","1",","," ","8","0",".","0",","," ","!","-"," ","S","o","m","e"," ","F","i","e","l","d","\n">>
       /\ Substituted(i)

\* the blanks a line starts with
LeadingBlanks(line) ==
  LET solid == {k \in 1..Len(line) : line[k] \notin Whitespace}
  IN  IF solid = {} THEN line ELSE SubSeq(line, 1, MinOf(solid) - 1)

\* the value token of a line: from its first non-blank character up to the
\* first blank or delimiter
ValueEnd(line) ==
  LET from == Len(LeadingBlanks(line)) + 1
      stops == {k \in from..Len(line) : line[k] \in Whitespace \cup {",", ";"}}
  IN  IF stops = {} THEN Len(line) + 1 ELSE MinOf(stops)

ValueToken(line) == SubSeq(line, Len(LeadingBlanks(line)) + 1, ValueEnd(line) - 1)

\* what follows the value token: blanks, delimiter, the rest and the comment
AfterValue(line) == SubSeq(line, ValueEnd(line), Len(line))

\* C5: a substituted line differs from the input line in its value token only
C5_OnlyValueTokenChanges ==
  \A i \in 1..Len(trace) :
    Substituted(i) =>
      /\ LeadingBlanks(new_lines[i]) = LeadingBlanks(lines[i])
      /\ AfterValue(new_lines[i]) = AfterValue(lines[i])

\* the part of the line before its comment holds one value and its delimiter
HoldsOneValue(line) ==
  LET content == SplitHead(line, "!")
  IN  Cardinality({k \in 1..Len(content) : content[k] \in {",", ";"}}) = 1

\* C6: a line whose comment matches a pending label but whose value token is
\* text that is no number is left as it is and is not a substitution
C6_NonNumericFieldSkipped ==
  \A i \in 1..Len(trace) :
    ( /\ trace[i].matched
      /\ HoldsOneValue(lines[i])
      /\ ValueToken(lines[i]) # <<>>
      /\ ~ParseFloat(ValueToken(lines[i])).ok )
    => /\ new_lines[i] = lines[i]
       /\ ~Substituted(i)

\* the label a comment gives: the text after "!", without a leading "- "
CommentLabel(line) ==
  LET comment == Strip(SubSeq(line, Find(line, "!") + 1, Len(line)))
  IN  IF StartsWith(comment, <<"-"," ">>) THEN Strip(SubSeq(comment, 3, Len(comment)))
      ELSE comment

\* a label case-folded, its spaces and underscores removed
FoldLabel(s) == SelectSeq(Lower(s), LAMBDA c : c \notin {" ", "_"})

\* request r is pending for the block the loop is in at line i, and its label
\* equals the label of the line's comment up to case, spaces and underscores
SameLabelPending(i, r) ==
  /\ trace[i].tried
  /\ Upper(r.type) = trace[i].type
  /\ Upper(r.name) = trace[i].name
  /\ FoldLabel(r.field) = FoldLabel(CommentLabel(lines[i]))

\* C7: a pending request whose label equals the comment's label up to case,
\* spaces and underscores matches the line
C7_NormalizedLabelMatching ==
  \A i \in 1..Len(trace) :
    \A j \in 1..Len(target_updates) :
      SameLabelPending(i, target_updates[j]) => trace[i].matched

\* C7 witness: "Watts per Zone Floor Area" matched the comment
\* "!- Watts_per_Zone_Floor_Area"
C7_Witness ==
  \E i \in 1..Len(trace) :
    \E j \in 1..Len(target_updates) :
      /\ SameLabelPending(i, target_updates[j])
      /\ target_updates[j].field = <<"W","a","t","t","s"," ","p","e","r"," ","Z","o","n","e"," ","F","l","o","o","r"," ","A","r","e","a">>
      /\ CommentLabel(lines[i]) = <<"W","a","t","t","s","_","p","e","r","_","Z","o","n","e","_","F","l","o","o","r","_","A","r","e","a">>
      /\ trace[i].matched
      /\ Substituted(i)

\* text occurs in the source document, whatever its case
OccursInSource(text) == Contains(Upper(src_bytes), Upper(text))

\* C8: when every request names an object type or an instance name that the
\* document does not hold, nothing is substituted and the output file equals
\* the input file
C8_AbsentTargetsLeaveDocument ==
  ( /\ Written
    /\ target_updates # <<>>
    /\ \A j \in 1..Len(target_updates) :
         /\ Upper(target_updates[j].name) # NA
         /\ \/ ~OccursInSource(target_updates[j].type)
            \/ ~OccursInSource(target_updates[j].name) )
  => /\ NumSubstitutions = 0
     /\ out_file = src_bytes

\* C9: the output is written in the encoding the source was read with
C9_WritesInReadEncoding ==
  Written => out_encoding = encoding

\* C10: a source that cannot be opened ends the operation in an error with no
\* output file, and an output file is written only after the source was read
\* and every line was processed
C10_UnreadableSourceWritesNothing ==
  /\ (~src_exists /\ pc \notin {"execute", "read"}) => (pc = "failed" /\ out_file = NoFile)
  /\ out_file # NoFile =>
       /\ src_exists
       /\ encoding # None
       /\ Len(new_lines) = Len(lines)
       /\ Len(trace) = Len(lines)

\* C10 witness: the source was removed, the read failed, nothing was written
C10_Witness ==
  /\ pc = "failed"
  /\ ~src_exists
  /\ out_file = NoFile
  /\ target_updates # <<>>

\* C11: two runs of a batch, with different coefficients on the same base
\* document and field selection, rewrite the same lines, leave every other line
\* the same, differ on a rewritten line in its value token only, and saw the
\* same base document and parsed model
C11_CoefficientsIndependent ==
  Len(results) >= 2 =>
    LET a == results[1]
        b == results[2]
    IN  /\ a.src_bytes = b.src_bytes
        /\ a.base_idf = b.base_idf
        /\ a.lines = b.lines
        /\ Len(a.trace) = Len(b.trace)
        /\ Len(a.new_lines) = Len(b.new_lines)
        /\ \A i \in 1..Len(a.trace) :
             /\ (a.trace[i].how = "kept") <=> (b.trace[i].how = "kept")
             /\ a.trace[i].how = "kept" => a.new_lines[i] = b.new_lines[i]
             /\ a.trace[i].how # "kept" =>
                  /\ LeadingBlanks(a.new_lines[i]) = LeadingBlanks(b.new_lines[i])
                  /\ AfterValue(a.new_lines[i]) = AfterValue(b.new_lines[i])

\* C11 witness: both runs of a batch rewrote a line, each with its own value
C11_Witness ==
  /\ Len(results) = 2
  /\ results[1].coef # results[2].coef
  /\ \E i \in 1..Len(results[1].trace) :
       /\ results[1].trace[i].how # "kept"
       /\ results[2].trace[i].how # "kept"
       /\ results[1].new_lines[i] # results[2].new_lines[i]
       /\ results[1].new_lines[i] # results[1].lines[i]

\* the instances of the queried object type, none when the type is not declared
QueriedObjects == DictGet(base_idf, answer.object_type, <<>>)

\* the declared field labels of an instance, the key label left out
DeclaredLabels(obj) == SelectSeq(obj.fieldnames, LAMBDA f : f # <<"k","e","y">>)

\* how many of the declared fields of an instance reach up to its last value
\* that is not the empty string; the first value is the key
LastWritten(obj) ==
  LET values == Tail(obj.fieldvalues)
      written == {j \in 1..Len(values) : values[j] # <<>>}
  IN  IF written = {} THEN 0 ELSE MaxOf(written)

\* C12: the active field list of an instance is its declared labels, in order
\* and without the key label, up to and including the last field with a
\* non-blank value; 0 is a value, and later fields are dropped
C12_ActiveFieldList ==
  (answer # NoAnswer /\ answer.op = "get_all_fields" /\ QueriedObjects # <<>>) =>
    LET obj == QueriedObjects[1]
    IN  answer.value = SubSeq(DeclaredLabels(obj), 1, LastWritten(obj))

\* C12 witness: the list of an instance whose last written value is 0 and
\* whose later field is blank ends at the field that holds the 0
C12_Witness ==
  /\ answer # NoAnswer
  /\ answer.op = "get_all_fields"
  /\ QueriedObjects # <<>>
  /\ LET obj == QueriedObjects[1]
     IN  /\ Tail(obj.fieldvalues) = << <<"Z","3">>, <<"7">>, <<"0">>, <<>> >>
         /\ answer.value = << <<"N","a","m","e">>, <<"S","o","m","e","_","F","i","e","l","d">>, <<"M","u","l","t","i","p","l","i","e","r">> >>
         /\ Len(answer.value) < Len(DeclaredLabels(obj))

\* the instance with values "A", "", 5, "", "" under labels field0 to field4
IsExampleInstance(obj) ==
  /\ DeclaredLabels(obj) = << <<"f","i","e","l","d","0">>, <<"f","i","e","l","d","1">>, <<"f","i","e","l","d","2">>, <<"f","i","e","l","d","3">>, <<"f","i","e","l","d","4">> >>
  /\ Tail(obj.fieldvalues) = << <<"A">>, <<>>, <<"5">>, <<>>, <<>> >>

\* C13: for the instance with values "A", "", 5, "", "" the active field list
\* is field0, field2
C13_ActiveFieldListExample ==
  ( /\ answer # NoAnswer /\ answer.op = "get_all_fields" /\ QueriedObjects # <<>>
    /\ IsExampleInstance(QueriedObjects[1]) )
  => answer.value = << <<"f","i","e","l","d","0">>, <<"f","i","e","l","d","2">> >>

\* C13 as amended: for that instance the active field list is field0, field1,
\* field2: the blank field1 before the last written value is kept
C13_ActiveFieldListKeepsInnerBlank ==
  ( /\ answer # NoAnswer /\ answer.op = "get_all_fields" /\ QueriedObjects # <<>>
    /\ IsExampleInstance(QueriedObjects[1]) )
  => answer.value = << <<"f","i","e","l","d","0">>, <<"f","i","e","l","d","1">>, <<"f","i","e","l","d","2">> >>

\* C13 witness: get_all_fields answered for the example instance
C13_Witness ==
  /\ answer # NoAnswer
  /\ answer.op = "get_all_fields"
  /\ answer.object_type = <<"S","A","M","P","L","E">>
  /\ QueriedObjects # <<>>
  /\ IsExampleInstance(QueriedObjects[1])
  /\ Len(answer.value) = 3

\* C14: for an object type that is not declared or has no instance
\* get_all_fields gives the empty list and get_object_sample the empty mapping;
\* the summary has an entry exactly for the types with an instance, and its
\* count is the number of names it lists
C14_SparseModelIndex ==
  answer # NoAnswer =>
    /\ (answer.op = "get_all_fields" /\ QueriedObjects = <<>>) => answer.value = <<>>
    /\ (answer.op = "get_object_sample" /\ QueriedObjects = <<>>) => answer.value = <<>>
    /\ answer.op = "get_idf_object_summary" =>
         /\ \A j \in 1..Len(answer.value) :
              /\ Len(DictGet(base_idf, answer.value[j].k, <<>>)) >= 1
              /\ answer.value[j].v.count = Len(answer.value[j].v.all_names)
              /\ answer.value[j].v.count = Len(DictGet(base_idf, answer.value[j].k, <<>>))
         /\ \A t \in 1..Len(base_idf) :
              Len(base_idf[t].v) >= 1 => DictHas(answer.value, base_idf[t].k)

\* C14 witness: the summary of a model in which some declared type has no
\* instance and another has one
C14_Witness ==
  /\ answer # NoAnswer
  /\ answer.op = "get_idf_object_summary"
  /\ answer.value # <<>>
  /\ \E t \in 1..Len(base_idf) : base_idf[t].v = <<>>
  /\ Len(answer.value) < Len(base_idf)

\* C15: inside a block current_name changes only on a line whose comment,
\* the leading "- " stripped, is "Name", and then it becomes the value of that
\* line, comment and delimiters removed, in upper case
C15_NameCaptureOnNameLabelOnly ==
  \A i \in 1..Len(trace) :
    trace[i].before.in_obj =>
      /\ trace[i].name # trace[i].before.current_name =>
           CommentLabel(lines[i]) = <<"N","a","m","e">>
      /\ (HasChar(lines[i], "!") /\ CommentLabel(lines[i]) = <<"N","a","m","e">>) =>
           trace[i].name = Upper(Strip(Remove(Remove(SplitHead(lines[i], "!"), ","), ";")))

\* in_obj as line i left it
InObjAfter(i) == IF i < Len(trace) THEN trace[i + 1].before.in_obj ELSE in_obj

\* the part of line i before its comment holds a semicolon
Terminates(i) == HasChar(SplitHead(lines[i], "!"), ";")

\* the first token of a line, delimiters removed, in upper case
FirstToken(line) ==
  Upper(Strip(Remove(SplitHead(SplitHead(Strip(line), "!"), ","), ";")))

\* line k, met outside any block, opens a block whose first token is the type
\* of some update request
OpensTargetBlock(k) ==
  /\ ~trace[k].before.in_obj
  /\ trace[k].inside
  /\ \E j \in 1..Len(target_updates) : Upper(target_updates[j].type) = FirstToken(lines[k])

\* request r is for the block line i is in and its label is the label of the
\* comment of line i, up to case, spaces and underscores
LabelledFor(i, r) ==
  /\ HasChar(lines[i], "!")
  /\ Upper(r.type) = trace[i].type
  /\ Upper(r.name) = trace[i].name
  /\ FoldLabel(r.field) = FoldLabel(CommentLabel(lines[i]))

\* C16: a line inside a block with a semicolon before its comment leaves in_obj
\* false; that line itself still matches a request for its label; and a line
\* is substituted only if a line outside any block opened a block of a target
\* type and no line from there to the line before it held a semicolon
C16_SemicolonClosesBlock ==
  \A i \in 1..Len(trace) :
    /\ (trace[i].inside /\ Terminates(i)) =>
         /\ ~InObjAfter(i)
         /\ \A j \in 1..Len(target_updates) :
              LabelledFor(i, target_updates[j]) => trace[i].matched
    /\ Substituted(i) =>
         \E k \in 1..i :
           /\ OpensTargetBlock(k)
           /\ \A n \in k..(i - 1) : ~Terminates(n)

\* C16 witness: the last line of a record was substituted, it closed the block,
\* and the lines after it were left alone
C16_Witness ==
  \E i \in 1..Len(trace) :
    /\ i < Len(trace)
    /\ trace[i].inside
    /\ Terminates(i)
    /\ Substituted(i)
    /\ ~InObjAfter(i)
    /\ \A n \in (i + 1)..Len(trace) : ~Substituted(n)

\* C17: the patcher run with the same update set on the document it wrote
\* writes that document again
C17_ReapplicationStable ==
  (Written /\ Len(results) = 1) => out_file = results[1].out_file

\* the table has been built
Indexed == pc \in {"loop", "written", "done"}

\* the value the table holds for the descriptor of request r
IndexedValue(r) ==
  DictGet(DictGet(DictGet(updates_map, Upper(r.type), <<>>), Upper(r.name), <<>>),
          Upper(r.field), None)

\* C18: the table is keyed by upper-cased type, name and label; of several
\* requests with the same descriptor, labels that differ in case, spaces or
\* underscores being the same, the last one gives the value written
C18_LastDuplicateWins ==
  /\ Indexed =>
       \A j \in 1..Len(target_updates) :
         LET same == {n \in 1..Len(target_updates) :
                        /\ Upper(target_updates[n].type) = Upper(target_updates[j].type)
                        /\ Upper(target_updates[n].name) = Upper(target_updates[j].name)
                        /\ Upper(target_updates[n].field) = Upper(target_updates[j].field)}
         IN  IndexedValue(target_updates[j]) = target_updates[MaxOf(same)].value
  /\ \A i \in 1..Len(trace) :
       LET same == {j \in 1..Len(target_updates) : LabelledFor(i, target_updates[j])}
       IN  (Substituted(i) /\ same # {}) =>
             ValueToken(new_lines[i]) = FormatFloat(target_updates[MaxOf(same)].value)

\* the declared field of obj that the selected field names
SelectedAttrs(obj, field) ==
  {j \in 1..Len(obj.fieldnames) : NormField(obj.fieldnames[j]) = NormField(Strip(field))}

\* target_updates holds a request with this descriptor
Requested(obj_type, obj_name, attr) ==
  \E j \in 1..Len(target_updates) :
    /\ target_updates[j].type = obj_type
    /\ target_updates[j].name = obj_name
    /\ target_updates[j].field = attr

\* C19: a selected field whose value in an instance is no number gives no
\* request for that instance and its line is written as it was read, while
\* every selected field with a number, or none, in an instance has its request
C19_UnparseableFieldSkipped ==
  pc # "execute" =>
    \A m \in 1..Len(modifications) :
      LET mod == modifications[m]
          objs == DictGet(base_idf, mod.object_type, <<>>)
      IN  \A o \in 1..Len(objs) : \A f \in 1..Len(mod.fields) :
            LET obj == objs[o]
                hits == SelectedAttrs(obj, mod.fields[f])
                attr == obj.fieldnames[MinOf(hits)]
                old_val == GetAttr(obj, attr, <<>>)
                obj_name == GetAttr(obj, <<"N","a","m","e">>, NA)
            IN  hits # {} =>
                  IF old_val # <<>> /\ ~ParseFloat(old_val).ok
                  THEN /\ ~Requested(mod.object_type, obj_name, attr)
                       /\ \A i \in 1..Len(trace) :
                            ( /\ HasChar(lines[i], "!")
                              /\ FoldLabel(CommentLabel(lines[i])) = FoldLabel(attr)
                              /\ ValueToken(lines[i]) = old_val )
                            => new_lines[i] = lines[i]
                  ELSE Requested(mod.object_type, obj_name, attr)

\* C20: the update of an instance that has no name is skipped: no line is
\* substituted in a block whose name was not captured, current_name being
\* still the text the block was opened with
C20_NamelessInstanceSkipped ==
  \A i \in 1..Len(trace) :
    Substituted(i) => trace[i].name # NA

\* line c is a name line: its comment, the leading "- " stripped, is "Name"
IsNameLine(c) == HasChar(lines[c], "!") /\ CommentLabel(lines[c]) = <<"N","a","m","e">>

\* the name a name line gives: its value, delimiters removed, in upper case
NameOn(c) == Upper(Strip(Remove(Remove(SplitHead(lines[c], "!"), ","), ";")))

\* line i lies in the record that line k opened: k was met outside any record
\* and no line from k to the one before i holds a semicolon
InRecordOpenedAt(i, k) ==
  /\ k <= i
  /\ ~trace[k].before.in_obj
  /\ trace[k].inside
  /\ \A n \in k..(i - 1) : ~Terminates(n)

\* C21: a substituted line lies in a record whose opening line has as first
\* token the type T of a request (T, N, F) whose label matches the line, and
\* the last name line of that record up to the line gives N; and a target
\* block opens with current_name reset, no earlier name carried over
C21_NoCrossRecordLeakage ==
  \A i \in 1..Len(trace) :
    /\ Substituted(i) =>
         \E k \in 1..i :
           /\ InRecordOpenedAt(i, k)
           /\ FirstToken(lines[k]) = trace[i].type
           /\ \E c \in k..i :
                /\ IsNameLine(c)
                /\ \A n \in (c + 1)..i : ~IsNameLine(n)
                /\ \E j \in 1..Len(target_updates) :
                     /\ Upper(target_updates[j].type) = FirstToken(lines[k])
                     /\ Upper(target_updates[j].name) = NameOn(c)
                     /\ LabelMatches(Upper(target_updates[j].field), FieldKey(lines[i]))
    /\ (OpensTargetBlock(i) /\ ~Contains(lines[i], <<"!","-"," ","N","a","m","e">>)) => trace[i].name = NA

\* the requests for instance name of type type, told apart by their labels
DistinctRequests(type, name) ==
  {Upper(target_updates[j].field) :
     j \in {n \in 1..Len(target_updates) :
              Upper(target_updates[n].type) = type /\ Upper(target_updates[n].name) = name}}

\* C22: in one record of an instance, no more lines are substituted than
\* there are distinct requests for that instance: a request rewrites at most
\* one line of the record
C22_AtMostOneLinePerRequest ==
  \A k \in 1..Len(trace) :
    (~trace[k].before.in_obj /\ trace[k].inside) =>
      \A i \in k..Len(trace) :
        (InRecordOpenedAt(i, k) /\ Substituted(i)) =>
          Cardinality({n \in k..i : Substituted(n) /\ trace[n].name = trace[i].name})
            <= Cardinality(DistinctRequests(trace[i].type, trace[i].name))

====
